---------------------------- MODULE Spec2Model ----------------------------
(***************************************************************************)
(* Model of custom_components/samsungtv_smart/__init__.py: the transport   *)
(* prober (_try_connect_ws with _gen_token_file), the cloud health check   *)
(* (_try_connect_st) and the device info resolver (get_device_info) of     *)
(* class SamsungTVInfo.                                                    *)
(*                                                                         *)
(* Python values are records [t, v]: t is the type tag and v a sequence of *)
(* symbols (the characters of a string, the literal of a boolean), so that *)
(* None, "" and a non-empty string are three different values.             *)
(***************************************************************************)
EXTENDS Naturals, Sequences, FiniteSets, TLC

VARIABLES
    tv,      \* resolver -> the fields of the SamsungTVInfo object
    frame,   \* resolver -> the frame of its get_device_info call in progress
    fs,      \* token file path -> its content on disk ("absent" when no file)
    hass,    \* hass.data and the config entries Home Assistant holds
    conns    \* resolver -> the ports on which it holds an open probe connection

vars == <<tv, frame, fs, hass, conns>>

-----------------------------------------------------------------------------
(* Python values *)

None == [t |-> "none", v |-> <<>>]
Str(s) == [t |-> "str", v |-> s]
PyTrue == [t |-> "bool", v |-> <<"True">>]
PyFalse == [t |-> "bool", v |-> <<"False">>]
Int(digits) == [t |-> "int", v |-> digits]

\* Python truthiness of None, a string, a boolean or an integer
Truthy(x) ==
    CASE x.t = "none" -> FALSE
      [] x.t = "str" -> x.v # <<>>
      [] x.t = "bool" -> x = PyTrue
      [] x.t = "int" -> x.v # <<"0">>

\* s.startswith(p) on sequences of characters
StartsWith(s, p) == Len(s) >= Len(p) /\ SubSeq(s, 1, Len(p)) = p

\* the literal "uuid:"
UuidPrefix == <<"u", "u", "i", "d", ":">>

-----------------------------------------------------------------------------
(* Result codes *)

RESULT_SUCCESS == "RESULT_SUCCESS"
RESULT_NOT_SUCCESSFUL == "RESULT_NOT_SUCCESSFUL"
RESULT_NOT_SUPPORTED == "RESULT_NOT_SUPPORTED"
RESULT_ST_DEVICE_NOT_FOUND == "RESULT_ST_DEVICE_NOT_FOUND"
RESULT_WRONG_APIKEY == "RESULT_WRONG_APIKEY"

ResultCodes ==
    {RESULT_SUCCESS, RESULT_NOT_SUCCESSFUL, RESULT_NOT_SUPPORTED,
     RESULT_ST_DEVICE_NOT_FOUND, RESULT_WRONG_APIKEY}

NoResult == "no_result"
NoException == "no_exception"

-----------------------------------------------------------------------------
(* Resolvers and their hosts *)

Resolvers == {1, 2}

\* the resolvers that run under Spec
SeqResolvers == {1}

HostOf(r) == IF r = 1 THEN "tvA" ELSE "tvB"

\* the ports _try_connect_ws walks, in order
WsPorts == <<8001, 8002>>

\* the only port _gen_token_file serves
TokenPort == 8002

\* mutant of TokenPath: the hostname is left out of the file name
TokenPath_Shared(hostname) == <<"token-", ".txt">>

\* the path _gen_token_file builds from the hostname
TokenPath(hostname) == <<"token-", hostname, ".txt">>

Paths == {TokenPath(HostOf(r)) : r \in Resolvers}

FileContents == {"absent", "empty", "token"}


-----------------------------------------------------------------------------
(* hass.data[DOMAIN] and the config entries *)

\* the hosts of the YAML configuration and of the entries
Hosts == {"h1", "h2"}

\* the config entries: distinct entry ids, distinct unique ids (the host)
ConfigEntries ==
    { [entry_id |-> "e1", unique_id |-> "h1"],
      [entry_id |-> "e2", unique_id |-> "h2"] }

EntryIds == {c.entry_id : c \in ConfigEntries}

\* the keys hass.data[DOMAIN] can have
DomainKeys == Hosts \cup EntryIds

\* a key that is not in the dict
Missing == [t |-> "missing"]

\* the dict under a host: {} as setdefault creates it (yaml = FALSE), or the
\* SAMSMART_SCHEMA keys async_setup stores in it (yaml = TRUE)
HostData(yaml) == [t |-> "host", yaml |-> yaml]

\* the dict under an entry id: the options and the list of listener
\* removers (its length)
EntryData(use_st, listeners) ==
    [t |-> "entry", options |-> use_st, listeners |-> listeners]

\* hass.data without the DOMAIN key
NoDomain == [has_domain |-> FALSE, domain |-> [k \in DomainKeys |-> Missing]]

\* the config argument of async_setup: without the DOMAIN key, or with the
\* list of the hosts configured in YAML
NoYaml == [has_domain |-> FALSE, hosts |-> {}]

Configs == {NoYaml} \cup {[has_domain |-> TRUE, hosts |-> H] : H \in SUBSET Hosts}

\* what Home Assistant holds of a config entry: its state, the update
\* listeners registered with it, and of its last load and unload: what was
\* under its unique id before the load, how many removers the unload
\* called, and the exception the unload raised
NewEntry ==
    [state |-> "not_loaded", update_listeners |-> 0, host_before |-> Missing,
     called |-> 0, raised |-> NoException]

NewHass == [data |-> NoDomain, entries |-> [i \in EntryIds |-> NewEntry]]

-----------------------------------------------------------------------------
(* The inputs the environment supplies *)

\* names the caller passes to SamsungTVInfo(hass, hostname, name="")
Names == {Str(<<>>), Str(<<"T", "V">>)}

\* values the caller passes for api_key and st_device_id (default None)
Credentials ==
    { <<None, None>>, <<Str(<<"k">>), None>>, <<None, Str(<<"d">>)>>,
      <<Str(<<>>), Str(<<"d">>)>>, <<Str(<<"k">>), Str(<<>>)>>,
      <<Str(<<"k">>), Str(<<"d">>)>> }

DeviceKeys == {"id", "wifiMac", "name", "modelName", "OS", "TokenAuthSupport"}

\* a "device" object: the value device.get(key) gives for each key the code
\* reads (None when the key is missing), and whether it holds any other key
Device(id, mac, name, model, os, tok, other) ==
    [id |-> id, wifiMac |-> mac, name |-> name, modelName |-> model,
     OS |-> os, TokenAuthSupport |-> tok, other |-> other]

EmptyDevice == Device(None, None, None, None, None, None, FALSE)

Devices ==
    { Device(Str(UuidPrefix \o <<"A", "B">>), Str(<<"aa:bb">>),
             Str(<<"L", "R">>), Str(<<"X">>), Str(<<"Tizen">>), PyTrue, FALSE),
      Device(Str(<<"A", "B">>), None, None, None, None, PyFalse, FALSE),
      Device(Str(UuidPrefix \o UuidPrefix \o <<"A">>), Str(<<"cc:dd">>),
             Str(<<>>), Str(<<"Y">>), None, None, TRUE),
      Device(Str(<<"A">> \o UuidPrefix), None, Str(<<"K">>), None,
             Str(<<"Tizen">>), PyTrue, FALSE),
      Device(None, None, None, None, None, None, TRUE),
      Device(Int(<<"5">>), None, Str(<<"K">>), None, None, PyTrue, FALSE),
      Device(Str(<<"u", "u", "i", "d">>), None, None, Str(<<"Z">>), None, None, FALSE),
      Device(Str(UuidPrefix), Str(<<"ee:ff">>), None, None, None, PyFalse, FALSE),
      EmptyDevice }

\* the JSON body resp.json() gives: an object (dict) or not, and the value of
\* its "device" key when it has one
Info(dict, hasDevice, device) ==
    [dict |-> dict, hasDevice |-> hasDevice, device |-> device]

NoInfo == Info(TRUE, FALSE, EmptyDevice)

Infos ==
    {Info(TRUE, TRUE, d) : d \in Devices} \cup {NoInfo, Info(FALSE, FALSE, EmptyDevice)}

\* what remote.open() does: it returns, or raises one of the three handled errors
WsOutcomes == {"ok", "OSError", "ConnectionFailure", "WebSocketException"}

\* what the descriptor GET does: a body, or an exception of aiohttp / asyncio
HttpOutcome(kind, info) == [kind |-> kind, info |-> info]

HttpOutcomes ==
    {HttpOutcome("ok", i) : i \in Infos}
    \cup {HttpOutcome(k, NoInfo) :
            k \in {"TimeoutError", "ClientConnectionError",
                   "ClientResponseError", "JSONDecodeError"}}

\* what st.async_device_health() does: a health value, or an exception
CloudOutcome(kind, health, status) ==
    [kind |-> kind, health |-> health, status |-> status]

NoCloud == CloudOutcome("none", FALSE, 0)

CloudOutcomes ==
    {CloudOutcome("health", h, 200) : h \in BOOLEAN}
    \cup {CloudOutcome("ClientResponseError", FALSE, s) : s \in {400, 401, 403, 500}}
    \cup {CloudOutcome(k, FALSE, 0) :
            k \in {"TimeoutError", "ClientConnectionError", "Exception"}}

-----------------------------------------------------------------------------
(* SamsungTVInfo.__init__ *)

NewTv(hostname, name) ==
    [hostname |-> hostname, name |-> name,
     uuid |-> None, macaddress |-> None, device_name |-> None,
     device_model |-> None, device_os |-> None,
     token_support |-> PyFalse, port |-> 0]

\* the descriptor attributes of a resolver
Descriptor(t) ==
    <<t.uuid, t.macaddress, t.device_name, t.device_model, t.device_os,
      t.token_support>>

\* no get_device_info call in progress
IdleFrame ==
    [pc |-> "idle", session |-> FALSE, api_key |-> None, st_device_id |-> None,
     idx |-> 1, token_file |-> None, gen |-> "none", opened |-> "none",
     attempts |-> <<>>, probe |-> NoResult, info |-> NoInfo,
     http |-> "none", cloud |-> NoCloud, http_gets |-> 0, cloud_calls |-> 0,
     assigned |-> FALSE, result |-> NoResult, raised |-> NoException,
     pre |-> NewTv("", None)]

\* the resolvers of SeqResolvers are constructed with any name and find any
\* token file of an earlier pairing on disk
Init ==
    /\ hass = NewHass
    /\ tv \in [Resolvers -> {NewTv(h, n) : h \in {"tvA", "tvB"}, n \in Names}]
    /\ \A r \in Resolvers :
          /\ tv[r].hostname = HostOf(r)
          /\ r \notin SeqResolvers => tv[r].name = Str(<<>>)
    /\ frame = [r \in Resolvers |-> IdleFrame]
    /\ fs \in [Paths -> FileContents]
    /\ \A r \in Resolvers \ SeqResolvers : fs[TokenPath(HostOf(r))] = "absent"
    /\ conns = [r \in Resolvers |-> {}]

\* a new SamsungTVInfo for the same host replaces an idle one
Construct(r, name) ==
    /\ frame[r].pc = "idle"
    /\ tv' = [tv EXCEPT ![r] = NewTv(HostOf(r), name)]
    /\ UNCHANGED <<frame, fs, conns, hass>>

-----------------------------------------------------------------------------
(* _gen_token_file and _try_connect_ws: the transport prober.  It runs in an *)
(* executor thread, so every file or socket operation is a step of its own.  *)

\* the port of the attempt in progress
CurPort(r) == WsPorts[frame[r].idx]

\* mutant of ServesToken: the port test is missing
ServesToken_AnyPort(port) == TRUE

\* whether _gen_token_file serves a port at all (it returns None otherwise)
ServesToken(port) == port = TokenPort

\* the record of one finished attempt of the loop
Attempt(port, token_file, gen, outcome) ==
    [port |-> port, token_file |-> token_file, gen |-> gen, outcome |-> outcome]

\* _gen_token_file up to os.path.isfile: None for a port other than 8002, the
\* path when the file is there, otherwise on to the creation
WsGenCheck(r) ==
    LET f == frame[r]
        path == TokenPath(tv[r].hostname)
    IN  /\ f.pc = "ws_gen"
        /\ frame' = [frame EXCEPT ![r] =
             IF ~ServesToken(CurPort(r))
             THEN [f EXCEPT !.pc = "ws_open", !.token_file = None, !.gen = "none"]
             ELSE IF fs[path] # "absent"
             THEN [f EXCEPT !.pc = "ws_open", !.token_file = Str(path),
                            !.gen = "existed"]
             ELSE [f EXCEPT !.pc = "ws_create"]]
        /\ UNCHANGED <<tv, fs, conns, hass>>

\* mutant of CreatedHandle: the except clause does not return None
CreatedHandle_KeepsPath(ok, path) == Str(path)

\* what _gen_token_file returns after the creation: the path, or None when
\* open raised
CreatedHandle(ok, path) == IF ok THEN Str(path) ELSE None

\* open(token_file, "w+") and close: the file is created empty (and truncated
\* if it has appeared since the check); on any error the handle is None
WsGenCreate(r, ok) ==
    LET f == frame[r]
        path == TokenPath(tv[r].hostname)
    IN  /\ f.pc = "ws_create"
        /\ IF ok
           THEN /\ fs' = [fs EXCEPT ![path] = "empty"]
                /\ frame' = [frame EXCEPT ![r] =
                     [f EXCEPT !.pc = "ws_open",
                               !.token_file = CreatedHandle(ok, path),
                               !.gen = "created"]]
           ELSE /\ fs' = fs
                /\ frame' = [frame EXCEPT ![r] =
                     [f EXCEPT !.pc = "ws_open",
                               !.token_file = CreatedHandle(ok, path),
                               !.gen = "failed"]]
        /\ UNCHANGED <<tv, conns, hass>>

\* what the connection does with the token file it was given: the library may
\* store the token the TV hands out (api/samsungws.py)
SaveToken(files, token_file, save) ==
    IF save /\ token_file # None
    THEN [files EXCEPT ![token_file.v] = "token"]
    ELSE files

\* SamsungTVWS(...).__enter__ and remote.open(): when open raises, the
\* socket may (sock) or may not have been connected by then
WsOpen(r, outcome, save, sock) ==
    LET f == frame[r]
    IN  /\ f.pc = "ws_open"
        /\ outcome = "ok" => sock
        /\ frame' = [frame EXCEPT ![r] = [f EXCEPT !.pc = "ws_exit", !.opened = outcome]]
        /\ conns' = [conns EXCEPT ![r] = IF sock THEN @ \cup {CurPort(r)} ELSE @]
        /\ IF outcome = "ok"
           THEN fs' = SaveToken(fs, f.token_file, save)
           ELSE fs' = fs
        /\ UNCHANGED <<tv, hass>>

\* mutant of WsClose: the connection is not closed when the block is left
WsClose_Leaks(open, port) == open

\* the with statement closes the connection of the block, however it is left
WsClose(open, port) == open \ {port}

\* mutant of WsSucceeded: the success path falls through to the next port
WsSucceeded_FallsThrough(outcome) == FALSE

\* mutant of WsSucceeded: the success path is taken after a failed open too
WsSucceeded_Always(outcome) == TRUE

\* the with block ends normally only when remote.open() returned
WsSucceeded(outcome) == outcome = "ok"

\* self._port = port
WsRecord(t, port) == [t EXCEPT !.port = port]

\* mutant of HasNextPort: the except clause gives up after the first port
HasNextPort_GivesUp(idx) == FALSE

\* whether the for loop has a port left after the one at idx
HasNextPort(idx) == idx < Len(WsPorts)

\* the end of the with block (the connection is closed), then either the
\* success path or the except clause and the next round of the loop
WsExit(r) ==
    LET f == frame[r]
        port == CurPort(r)
        done == Append(f.attempts, Attempt(port, f.token_file, f.gen, f.opened))
    IN  /\ f.pc = "ws_exit"
        /\ conns' = [conns EXCEPT ![r] = WsClose(@, port)]
        /\ IF WsSucceeded(f.opened)
           THEN /\ tv' = [tv EXCEPT ![r] = WsRecord(tv[r], port)]
                /\ frame' = [frame EXCEPT ![r] =
                     [f EXCEPT !.pc = "ws_done", !.attempts = done,
                               !.probe = RESULT_SUCCESS]]
           ELSE /\ tv' = tv
                /\ frame' = [frame EXCEPT ![r] =
                     IF HasNextPort(f.idx)
                     THEN [f EXCEPT !.pc = "ws_gen", !.attempts = done,
                                    !.idx = f.idx + 1]
                     ELSE [f EXCEPT !.pc = "ws_done", !.attempts = done,
                                    !.probe = RESULT_NOT_SUCCESSFUL]]
        /\ UNCHANGED <<fs, hass>>

-----------------------------------------------------------------------------
(* _try_connect_st: the cloud health check *)

\* mutant of try_connect_st: status 400 is not singled out
try_connect_st_No400(out) ==
    IF out.kind = "health"
    THEN IF out.health THEN "RESULT_SUCCESS" ELSE "RESULT_ST_DEVICE_NOT_FOUND"
    ELSE "RESULT_WRONG_APIKEY"

\* the status the except clause singles out
HttpBadRequest == 400

\* the code _try_connect_st returns for an outcome of st.async_device_health()
try_connect_st(out) ==
    IF out.kind = "health"
    THEN IF out.health THEN RESULT_SUCCESS ELSE RESULT_ST_DEVICE_NOT_FOUND
    ELSE IF out.kind = "ClientResponseError" /\ out.status = HttpBadRequest
    THEN RESULT_ST_DEVICE_NOT_FOUND
    ELSE RESULT_WRONG_APIKEY

-----------------------------------------------------------------------------
(* get_device_info: the device info resolver *)

\* mutant of HttpCaught: asyncio.TimeoutError is missing from the tuple
HttpCaught_NoTimeout(kind) == kind = "ClientConnectionError"

\* the exceptions the except clause around session.get handles
HttpCaught(kind) == kind \in {"TimeoutError", "ClientConnectionError"}

\* mutant of DeviceMissing: the test is "device is None"
DeviceMissing_NoneOnly(info) == ~info.hasDevice

\* truthiness of a device object: a dict is falsy when it is empty
DictTruthy(d) == d.other \/ \E k \in DeviceKeys : d[k] # None

\* "not device" for device = info.get("device", None)
DeviceMissing(info) == ~info.hasDevice \/ ~DictTruthy(info.device)

\* device_id.startswith exists only on a string
IdRaises(device_id) == Truthy(device_id) /\ device_id.t # "str"

\* mutant of StripUuid: the slice starts one character early
StripUuid_OffByOne(device_id) ==
    IF Truthy(device_id) /\ StartsWith(device_id.v, UuidPrefix)
    THEN Str(SubSeq(device_id.v, Len(UuidPrefix), Len(device_id.v)))
    ELSE device_id

\* the uuid made of device.get("id")
StripUuid(device_id) ==
    IF Truthy(device_id) /\ StartsWith(device_id.v, UuidPrefix)
    THEN Str(SubSeq(device_id.v, Len(UuidPrefix) + 1, Len(device_id.v)))
    ELSE device_id

\* mutant of Extract: the fallback fills device_name from the caller's name
Extract_DeviceNameFallsBack(t, device) ==
    [t EXCEPT !.uuid = StripUuid(device.id),
              !.macaddress = device.wifiMac,
              !.device_name = IF ~Truthy(device.name) THEN t.name ELSE device.name,
              !.device_model = device.modelName,
              !.device_os = device.OS,
              !.token_support = device.TokenAuthSupport]

\* the assignments of the attributes from the device object
Extract(t, device) ==
    [t EXCEPT !.uuid = StripUuid(device.id),
              !.macaddress = device.wifiMac,
              !.device_name = device.name,
              !.name = IF ~Truthy(t.name) THEN device.name ELSE t.name,
              !.device_model = device.modelName,
              !.device_os = device.OS,
              !.token_support = device.TokenAuthSupport]

\* mutant of WantsCloud: one credential is enough
WantsCloud_Either(api_key, st_device_id) == Truthy(api_key) \/ Truthy(st_device_id)

\* whether the cloud health check is to run
WantsCloud(api_key, st_device_id) == Truthy(api_key) /\ Truthy(st_device_id)

\* the call, up to the dispatch of _try_connect_ws to the executor
GdiCall(r, session, api_key, st_device_id) ==
    LET f == [IdleFrame EXCEPT !.session = session, !.api_key = api_key,
                               !.st_device_id = st_device_id, !.pre = tv[r]]
    IN  /\ frame[r].pc = "idle"
        /\ frame' = [frame EXCEPT ![r] =
             IF ~session
             THEN [f EXCEPT !.pc = "done", !.result = RESULT_NOT_SUCCESSFUL]
             ELSE [f EXCEPT !.pc = "ws_gen"]]
        /\ UNCHANGED <<tv, fs, conns, hass>>

\* the executor job is done: its result is returned unless it is SUCCESS
GdiAfterProbe(r) ==
    LET f == frame[r]
    IN  /\ f.pc = "ws_done"
        /\ frame' = [frame EXCEPT ![r] =
             [f EXCEPT !.result = f.probe,
                       !.pc = IF f.probe # RESULT_SUCCESS THEN "done" ELSE "http"]]
        /\ UNCHANGED <<tv, fs, conns, hass>>

\* session.get(tv_url(host), raise_for_status=True) and resp.json() under
\* timeout(2): a body, a handled exception, or an exception that propagates
GdiHttpGet(r, out) ==
    LET f == [frame[r] EXCEPT !.http = out.kind, !.http_gets = @ + 1]
    IN  /\ frame[r].pc = "http"
        /\ frame' = [frame EXCEPT ![r] =
             IF out.kind = "ok"
             THEN [f EXCEPT !.pc = "extract", !.info = out.info]
             ELSE IF HttpCaught(out.kind)
             THEN [f EXCEPT !.pc = "done", !.result = RESULT_NOT_SUCCESSFUL]
             ELSE [f EXCEPT !.pc = "done", !.result = NoResult,
                            !.raised = out.kind]]
        /\ UNCHANGED <<tv, fs, conns, hass>>

\* info.get("device") (an AttributeError when the body is no dict), the check
\* of the device object, the assignments of the attributes (an AttributeError
\* when the id is no string) and the test of the cloud credentials
GdiExtract(r) ==
    LET f == frame[r]
    IN  /\ f.pc = "extract"
        /\ IF ~f.info.dict
           THEN /\ frame' = [frame EXCEPT ![r] =
                     [f EXCEPT !.pc = "done", !.result = NoResult,
                               !.raised = "AttributeError"]]
                /\ tv' = tv
           ELSE IF DeviceMissing(f.info)
           THEN /\ frame' = [frame EXCEPT ![r] =
                     [f EXCEPT !.pc = "done", !.result = RESULT_NOT_SUCCESSFUL]]
                /\ tv' = tv
           ELSE IF IdRaises(f.info.device.id)
           THEN /\ frame' = [frame EXCEPT ![r] =
                     [f EXCEPT !.pc = "done", !.result = NoResult,
                               !.raised = "AttributeError"]]
                /\ tv' = tv
           ELSE /\ tv' = [tv EXCEPT ![r] = Extract(tv[r], f.info.device)]
                /\ frame' = [frame EXCEPT ![r] =
                     [f EXCEPT !.assigned = TRUE,
                               !.pc = IF WantsCloud(f.api_key, f.st_device_id)
                                      THEN "cloud" ELSE "done"]]
        /\ UNCHANGED <<fs, conns, hass>>

\* mutant of CloudReturn: the code of the health check is dropped
CloudReturn_Dropped(result, code) == result

\* result = await self._try_connect_st(...): the value of result afterwards
CloudReturn(result, code) == code

\* the cloud health check and its classification by _try_connect_st
GdiCloud(r, out) ==
    LET f == frame[r]
    IN  /\ f.pc = "cloud"
        /\ frame' = [frame EXCEPT ![r] =
             [f EXCEPT !.pc = "done", !.cloud_calls = @ + 1,
                       !.cloud = out,
                       !.result = CloudReturn(f.result, try_connect_st(out))]]
        /\ UNCHANGED <<tv, fs, conns, hass>>

\* the call is over: its result code, or its exception, is the caller's
GdiReturn(r) ==
    /\ frame[r].pc = "done"
    /\ frame' = [frame EXCEPT ![r] = IdleFrame]
    /\ UNCHANGED <<tv, fs, conns, hass>>

-----------------------------------------------------------------------------
(* One resolver, used for any sequence of calls *)

Next ==
    \E r \in SeqResolvers :
        \/ \E n \in Names : Construct(r, n)
        \/ \E s \in BOOLEAN, c \in Credentials : GdiCall(r, s, c[1], c[2])
        \/ WsGenCheck(r)
        \/ \E ok \in BOOLEAN : WsGenCreate(r, ok)
        \/ \E o \in WsOutcomes, save \in BOOLEAN, sock \in BOOLEAN :
               WsOpen(r, o, save, sock)
        \/ WsExit(r)
        \/ GdiAfterProbe(r)
        \/ \E o \in HttpOutcomes : GdiHttpGet(r, o)
        \/ GdiExtract(r)
        \/ \E o \in CloudOutcomes : GdiCloud(r, o)
        \/ GdiReturn(r)

Spec == Init /\ [][Next]_vars

-----------------------------------------------------------------------------
(* Two resolvers running one call each at the same time: the calls interleave *)
(* at every await and the probes run in executor threads                      *)

\* the inputs of the concurrent runs
ConcCredentials == { <<None, None>>, <<Str(<<"k">>), Str(<<"d">>)>> }

ConcWsOutcomes == {"ok", "OSError"}

ConcHttpOutcomes ==
    { HttpOutcome("ok", Info(TRUE, TRUE,
          Device(Str(<<"A", "B">>), None, None, None, None, PyFalse, FALSE))),
      HttpOutcome("ok", NoInfo),
      HttpOutcome("TimeoutError", NoInfo) }

ConcCloudOutcomes ==
    { CloudOutcome("health", TRUE, 200), CloudOutcome("TimeoutError", FALSE, 0) }

NextConc ==
    \E r \in Resolvers :
        \/ \E c \in ConcCredentials : GdiCall(r, TRUE, c[1], c[2])
        \/ WsGenCheck(r)
        \/ \E ok \in BOOLEAN : WsGenCreate(r, ok)
        \/ \E o \in ConcWsOutcomes, save \in BOOLEAN : WsOpen(r, o, save, o = "ok")
        \/ WsExit(r)
        \/ GdiAfterProbe(r)
        \/ \E o \in ConcHttpOutcomes : GdiHttpGet(r, o)
        \/ GdiExtract(r)
        \/ \E o \in ConcCloudOutcomes : GdiCloud(r, o)

\* two resolvers for two hosts
InitDistinct ==
    /\ hass = NewHass
    /\ tv = [r \in Resolvers |-> NewTv(HostOf(r), Str(<<>>))]
    /\ frame = [r \in Resolvers |-> IdleFrame]
    /\ fs \in [Paths -> FileContents]
    /\ conns = [r \in Resolvers |-> {}]

SpecDistinct == InitDistinct /\ [][NextConc]_vars

\* two resolvers for one host
InitSameHost ==
    /\ hass = NewHass
    /\ tv = [r \in Resolvers |-> NewTv(HostOf(1), Str(<<>>))]
    /\ frame = [r \in Resolvers |-> IdleFrame]
    /\ fs \in [Paths -> FileContents]
    /\ fs[TokenPath(HostOf(2))] = "absent"
    /\ conns = [r \in Resolvers |-> {}]

SpecSameHost == InitSameHost /\ [][NextConc]_vars

-----------------------------------------------------------------------------
(* async_setup, async_setup_entry and async_unload_entry: the life of the    *)
(* integration's data in hass.data                                            *)

\* dict.pop(key)
Pop(d, key) == [d EXCEPT ![key] = Missing]

\* dict.setdefault(key, default)
SetDefault(d, key, default) ==
    IF d[key] = Missing THEN [d EXCEPT ![key] = default] ELSE d

\* not d
DictEmpty(d) == \A k \in DOMAIN d : d[k] = Missing

\* hass.data with d under the DOMAIN key
WithDomain(d) == [has_domain |-> TRUE, domain |-> d]

\* async_setup(hass, config): with the DOMAIN key in config, hass.data[DOMAIN]
\* is set to {} and gets the schema keys of every configured host
async_setup(config) ==
    /\ hass' = [hass EXCEPT !.data =
          IF config.has_domain
          THEN WithDomain([k \in DomainKeys |->
                   IF k \in config.hosts THEN HostData(TRUE) ELSE Missing])
          ELSE @]
    /\ UNCHANGED <<tv, frame, fs, conns>>

\* async_setup_entry(hass, entry) for an entry that is not loaded: both
\* setdefault calls; add_update_listener is called whether or not the
\* record of the entry id is new
async_setup_entry(entry, use_st) ==
    LET s == hass.entries[entry.entry_id]
        d0 == hass.data.domain
        d1 == SetDefault(d0, entry.unique_id, HostData(FALSE))
        d2 == SetDefault(d1, entry.entry_id, EntryData(use_st, 1))
    IN  /\ s.state = "not_loaded"
        /\ hass' = [data |-> WithDomain(d2),
                    entries |-> [hass.entries EXCEPT ![entry.entry_id] =
                        [state |-> "loaded",
                         update_listeners |-> s.update_listeners + 1,
                         host_before |-> d0[entry.unique_id],
                         called |-> 0, raised |-> NoException]]]
        /\ UNCHANGED <<tv, frame, fs, conns>>

\* async_unload_entry(hass, config_entry) for a loaded entry: the lookup of
\* line 316 and the pop of line 319 raise KeyError when the key is missing
async_unload_entry(entry) ==
    LET s == hass.entries[entry.entry_id]
        d0 == hass.data.domain
        found == hass.data.has_domain /\ d0[entry.entry_id] # Missing
        called == IF found THEN d0[entry.entry_id].listeners ELSE 0
        d1 == Pop(d0, entry.entry_id)
        d2 == Pop(d1, entry.unique_id)
        ok == found /\ d1[entry.unique_id] # Missing
    IN  /\ s.state = "loaded"
        /\ hass' = [data |->
                        IF ~found THEN hass.data
                        ELSE IF ~ok THEN WithDomain(d1)
                        ELSE IF DictEmpty(d2) THEN NoDomain
                        ELSE WithDomain(d2),
                    entries |-> [hass.entries EXCEPT ![entry.entry_id] =
                        [s EXCEPT
                           !.state = IF ok THEN "not_loaded" ELSE "failed_unload",
                           !.update_listeners = @ - called,
                           !.called = called,
                           !.raised = IF ok THEN NoException ELSE "KeyError"]]]
        /\ UNCHANGED <<tv, frame, fs, conns>>

NextEntries ==
    \/ \E config \in Configs : async_setup(config)
    \/ \E entry \in ConfigEntries, use_st \in BOOLEAN :
          async_setup_entry(entry, use_st)
    \/ \E entry \in ConfigEntries : async_unload_entry(entry)

\* Home Assistant has started and no entry is loaded
InitEntries ==
    /\ tv = [r \in Resolvers |-> NewTv(HostOf(r), Str(<<>>))]
    /\ frame = [r \in Resolvers |-> IdleFrame]
    /\ fs = [p \in Paths |-> "absent"]
    /\ hass = NewHass
    /\ conns = [r \in Resolvers |-> {}]

SpecEntries == InitEntries /\ [][NextEntries]_vars

-----------------------------------------------------------------------------
(* Properties *)

\* the attempts of the prober run of r, finished ones only
Attempts(r) == frame[r].attempts

\* the prober run of r has returned
ProbeReturned(r) == frame[r].probe # NoResult

\* attempt i of the run of r failed with one of the handled errors
Failed(r, i) ==
    Attempts(r)[i].outcome \in {"OSError", "ConnectionFailure", "WebSocketException"}

\* C1: every get_device_info call ends with a result code for the caller,
\* whatever the external steps did; no exception leaves the call.
C1_NoExceptionEscapes ==
    \A r \in Resolvers :
        frame[r].pc = "done" => frame[r].raised = NoException

\* C2: once a prober run on a resolver has returned, working_port is nonzero
\* exactly when that run returned SUCCESS, also for a failed run that follows
\* a successful one on the same resolver.
C2_PortIffSuccess ==
    \A r \in Resolvers :
        ProbeReturned(r) =>
            (tv[r].port # 0 <=> frame[r].probe = RESULT_SUCCESS)

\* C3: ports are tried in the order 8001, 8002; when port 8001 accepts the
\* connection the run returns SUCCESS with working_port 8001 and port 8002
\* is never attempted in that run.
C3_FirstPortShortCircuits ==
    \A r \in Resolvers :
        /\ \A i \in 1..Len(Attempts(r)) : Attempts(r)[i].port = <<8001, 8002>>[i]
        /\ (Len(Attempts(r)) >= 1 /\ Attempts(r)[1].outcome = "ok") =>
              /\ Len(Attempts(r)) = 1
              /\ frame[r].idx = 1
              /\ frame[r].pc \notin {"ws_gen", "ws_create", "ws_open", "ws_exit"}
              /\ 8002 \notin conns[r]
              /\ frame[r].probe = RESULT_SUCCESS
              /\ tv[r].port = 8001

\* C3 witness: a run has returned after port 8001 accepted the connection
C3_Witness ==
    \E r \in Resolvers :
        /\ frame[r].pc = "ws_done"
        /\ Len(Attempts(r)) = 1
        /\ Attempts(r)[1].outcome = "ok"
        /\ tv[r].port = 8001

\* the case of C4: port 8001 failed with a handled error, port 8002 accepted
C4_Case(r) ==
    /\ Len(Attempts(r)) = 2
    /\ Failed(r, 1)
    /\ Attempts(r)[2].outcome = "ok"

\* C4 as stated: port 8001 failed and port 8002 accepted; the run returns
\* SUCCESS with working_port 8002 and a credential-cache handle was made for
\* (host, 8002) and for no other port.
C4_HandleFor8002Only ==
    \A r \in Resolvers :
        C4_Case(r) =>
            /\ frame[r].probe = RESULT_SUCCESS
            /\ tv[r].port = 8002
            /\ Attempts(r)[2].token_file # None
            /\ Attempts(r)[1].token_file = None

\* C4 as amended: port 8001 failed and port 8002 accepted; the run returns
\* SUCCESS with working_port 8002, the attempt on port 8001 got no handle and
\* no file was made for it, and the attempt on port 8002 got the handle of
\* (host, 8002), found or created, unless the file could not be created, in
\* which case it ran with no handle.
C4_HandleFor8002UnlessCreationFails ==
    \A r \in Resolvers :
        C4_Case(r) =>
            /\ frame[r].probe = RESULT_SUCCESS
            /\ tv[r].port = 8002
            /\ Attempts(r)[1].token_file = None
            /\ Attempts(r)[1].gen = "none"
            /\ Attempts(r)[2].gen \in {"existed", "created", "failed"}
            /\ Attempts(r)[2].gen = "failed" => Attempts(r)[2].token_file = None
            /\ Attempts(r)[2].gen # "failed" =>
                  /\ Attempts(r)[2].token_file = Str(<<"token-", tv[r].hostname, ".txt">>)
                  /\ fs[<<"token-", tv[r].hostname, ".txt">>] # "absent"

\* C4 witness: port 8001 failed, port 8002 accepted with a handle created in
\* this run
C4_Witness ==
    \E r \in Resolvers :
        /\ C4_Case(r)
        /\ frame[r].pc = "ws_done"
        /\ Attempts(r)[2].gen = "created"
        /\ Attempts(r)[2].token_file # None
        /\ tv[r].port = 8002

\* C5: when both ports fail with a handled error, the run returns
\* NOT_SUCCESSFUL after attempting both ports, and no credential-cache
\* handle is made for port 8001; a run returns NOT_SUCCESSFUL in no other way.
C5_BothFailNotSuccessful ==
    \A r \in Resolvers :
        /\ (Len(Attempts(r)) = 2 /\ Failed(r, 1) /\ Failed(r, 2)) =>
              /\ frame[r].probe = RESULT_NOT_SUCCESSFUL
              /\ Attempts(r)[1].port = 8001
              /\ Attempts(r)[2].port = 8002
              /\ Attempts(r)[1].token_file = None
              /\ Attempts(r)[1].gen = "none"
        /\ frame[r].probe = RESULT_NOT_SUCCESSFUL =>
              (Len(Attempts(r)) = 2 /\ Failed(r, 1) /\ Failed(r, 2))
        /\ (Len(Attempts(r)) >= 1 /\ Failed(r, 1)) =>
              (Len(Attempts(r)) = 2 \/ frame[r].idx = 2)

\* C5 witness: a run has returned NOT_SUCCESSFUL after two failed attempts
C5_Witness ==
    \E r \in Resolvers :
        /\ frame[r].pc = "ws_done"
        /\ Len(Attempts(r)) = 2
        /\ Failed(r, 1) /\ Failed(r, 2)
        /\ frame[r].probe = RESULT_NOT_SUCCESSFUL

\* a credential the caller supplied: neither None nor the empty string
Supplied(x) == x.t = "str" /\ x.v # <<>>

\* the body of the call of r holds a device object the fields can be read
\* from: a JSON object whose "device" is a non-empty object with an id that
\* is a string or missing
ReadableDevice(r) ==
    /\ frame[r].http = "ok"
    /\ frame[r].info.dict
    /\ frame[r].info.hasDevice
    /\ frame[r].info.device # EmptyDevice
    /\ frame[r].info.device.id.t \in {"none", "str"}

C7_CloudClassification ==
    \A r \in Resolvers :
        (frame[r].pc = "done" /\ frame[r].cloud_calls = 1) =>
            LET o == frame[r].cloud
            IN  frame[r].result =
                    CASE o.kind = "health" /\ o.health -> "RESULT_SUCCESS"
                      [] o.kind = "health" /\ ~o.health -> "RESULT_ST_DEVICE_NOT_FOUND"
                      [] o.kind = "ClientResponseError" /\ o.status = 400 ->
                             "RESULT_ST_DEVICE_NOT_FOUND"
                      [] OTHER -> "RESULT_WRONG_APIKEY"

\* C7 witness: a health check that met an HTTP error of status 400
C7_Witness ==
    \E r \in Resolvers :
        /\ frame[r].pc = "done"
        /\ frame[r].cloud = CloudOutcome("ClientResponseError", FALSE, 400)
        /\ frame[r].result = RESULT_ST_DEVICE_NOT_FOUND

\* steps 1 to 5 of the call of r have succeeded
StepsSucceeded(r) ==
    /\ frame[r].session
    /\ frame[r].probe = RESULT_SUCCESS
    /\ ReadableDevice(r)
    /\ frame[r].assigned

\* C8: with both cloud credentials supplied and steps 1 to 5 succeeded, the
\* call returns the code of the cloud health check, whichever it is.
C8_CloudCodeReturned ==
    \A r \in Resolvers :
        ( /\ frame[r].pc = "done"
          /\ Supplied(frame[r].api_key) /\ Supplied(frame[r].st_device_id)
          /\ StepsSucceeded(r) ) =>
            /\ frame[r].cloud_calls = 1
            /\ frame[r].raised = NoException
            /\ frame[r].result = try_connect_st(frame[r].cloud)

\* C8 witness: a call that returns the ST_DEVICE_NOT_FOUND of a health check
\* that found the device not healthy
C8_Witness ==
    \E r \in Resolvers :
        /\ frame[r].pc = "done"
        /\ StepsSucceeded(r)
        /\ frame[r].cloud = CloudOutcome("health", FALSE, 200)
        /\ frame[r].result = RESULT_ST_DEVICE_NOT_FOUND

\* C9: with the API key or the cloud device id absent, no cloud health check
\* is made at any point of the call, and the call returns SUCCESS once the
\* descriptor has been fetched and extracted.
C9_NoCloudWithoutCredentials ==
    \A r \in Resolvers :
        ~(Supplied(frame[r].api_key) /\ Supplied(frame[r].st_device_id)) =>
            /\ frame[r].cloud_calls = 0
            /\ frame[r].pc # "cloud"
            /\ frame[r].cloud = NoCloud
            /\ (frame[r].pc = "done" /\ StepsSucceeded(r)) =>
                  /\ frame[r].result = RESULT_SUCCESS
                  /\ frame[r].raised = NoException

\* C9 witness: a call with an API key and an empty device id has returned
\* SUCCESS after the extraction
C9_Witness ==
    \E r \in Resolvers :
        /\ frame[r].pc = "done"
        /\ StepsSucceeded(r)
        /\ frame[r].api_key = Str(<<"k">>)
        /\ frame[r].st_device_id = Str(<<>>)
        /\ frame[r].cloud_calls = 0
        /\ frame[r].result = RESULT_SUCCESS

\* C10: every call produces exactly one result code, and it is SUCCESS,
\* NOT_SUCCESSFUL, ST_DEVICE_NOT_FOUND or WRONG_APIKEY, never NOT_SUPPORTED.
C10_OneCodeNeverNotSupported ==
    \A r \in Resolvers :
        frame[r].pc = "done" =>
            frame[r].result \in
                {"RESULT_SUCCESS", "RESULT_NOT_SUCCESSFUL",
                 "RESULT_ST_DEVICE_NOT_FOUND", "RESULT_WRONG_APIKEY"}

\* the device object the call of r has read
DeviceOf(r) == frame[r].info.device

\* C11 as stated: after a fetch whose device object has no name, device_name
\* is the name the caller supplied; when the object has a name, device_name
\* is that name.
C11_DeviceNameFallsBackToCallerName ==
    \A r \in Resolvers :
        frame[r].assigned =>
            tv[r].device_name =
                IF DeviceOf(r).name = None THEN frame[r].pre.name
                ELSE DeviceOf(r).name

\* C11 as amended: after a fetch, device_name is the name of the device
\* object, None when it has none; it is the name supplied by the caller that
\* falls back: kept when it is non-empty, replaced by the name of the device
\* object when the caller supplied none.
C11_CallerNameFallsBackToDeviceName ==
    \A r \in Resolvers :
        frame[r].assigned =>
            /\ tv[r].device_name = DeviceOf(r).name
            /\ tv[r].name =
                  IF frame[r].pre.name.t = "str" /\ frame[r].pre.name.v # <<>>
                  THEN frame[r].pre.name
                  ELSE DeviceOf(r).name

\* C11 witness: the caller supplied a name and the device object has none
C11_Witness ==
    \E r \in Resolvers :
        /\ frame[r].assigned
        /\ frame[r].pre.name = Str(<<"T", "V">>)
        /\ DeviceOf(r).name = None
        /\ tv[r].device_name = None
        /\ tv[r].name = Str(<<"T", "V">>)

\* the characters of an id start with u, u, i, d and a colon
HasUuidPrefix(id) ==
    /\ id.t = "str"
    /\ Len(id.v) >= 5
    /\ id.v[1] = "u" /\ id.v[2] = "u" /\ id.v[3] = "i" /\ id.v[4] = "d"
    /\ id.v[5] = ":"

\* C13: the uuid is the raw device id without its leading "uuid:" when the
\* id starts with it (the leading one only, removed once) and the raw id
\* unchanged otherwise; wifiMac, modelName, OS and TokenAuthSupport are
\* copied as they are.
C13_UuidPrefixStripped ==
    \A r \in Resolvers :
        frame[r].assigned =>
            LET id == DeviceOf(r).id
            IN  /\ HasUuidPrefix(id) =>
                      /\ tv[r].uuid.t = "str"
                      /\ <<"u", "u", "i", "d", ":">> \o tv[r].uuid.v = id.v
                /\ ~HasUuidPrefix(id) => tv[r].uuid = id
                /\ tv[r].macaddress = DeviceOf(r).wifiMac
                /\ tv[r].device_model = DeviceOf(r).modelName
                /\ tv[r].device_os = DeviceOf(r).OS
                /\ tv[r].token_support = DeviceOf(r).TokenAuthSupport

\* C13 witness: an id with the prefix twice loses the leading one only
C13_Witness ==
    \E r \in Resolvers :
        /\ frame[r].assigned
        /\ DeviceOf(r).id = Str(<<"u", "u", "i", "d", ":", "u", "u", "i", "d", ":", "A">>)
        /\ tv[r].uuid = Str(<<"u", "u", "i", "d", ":", "A">>)
        /\ tv[r].macaddress = Str(<<"cc:dd">>)

\* the prober of the call of r has not been started
ProbeNotStarted(r) ==
    /\ frame[r].pc \notin {"ws_gen", "ws_create", "ws_open", "ws_exit", "ws_done"}
    /\ frame[r].attempts = <<>>
    /\ frame[r].probe = NoResult
    /\ conns[r] = {}

\* the order of the steps within the call of r: no probe without a session,
\* no descriptor GET before the prober returned SUCCESS, no cloud health
\* check before the descriptor was fetched with a device field
StepsInOrder(r) ==
    /\ ~frame[r].session => (ProbeNotStarted(r) /\ frame[r].http_gets = 0)
    /\ (frame[r].http_gets > 0 \/ frame[r].pc \in {"http", "extract"}) =>
          (frame[r].session /\ frame[r].probe = "RESULT_SUCCESS")
    /\ (frame[r].cloud_calls > 0 \/ frame[r].pc = "cloud") =>
          /\ frame[r].probe = "RESULT_SUCCESS"
          /\ frame[r].http_gets = 1
          /\ frame[r].http = "ok"
          /\ frame[r].info.dict /\ frame[r].info.hasDevice

\* a step of the finished call of r has failed: there was no session, the
\* prober returned NOT_SUCCESSFUL, the descriptor GET failed, or the
\* descriptor has no device field
StepFailed(r) ==
    \/ ~frame[r].session
    \/ frame[r].probe = "RESULT_NOT_SUCCESSFUL"
    \/ frame[r].http \notin {"none", "ok"}
    \/ (frame[r].http = "ok" /\ frame[r].info.dict /\ ~frame[r].info.hasDevice)

\* C14: the steps of a call form a fail-fast pipeline: each step starts only
\* after the step before it succeeded, and when a step fails the call
\* returns the code of that step (NOT_SUCCESSFUL) and starts no later step.
C14_FailFastPipeline ==
    \A r \in Resolvers :
        /\ StepsInOrder(r)
        /\ (frame[r].pc = "done" /\ StepFailed(r)) =>
              /\ frame[r].result = "RESULT_NOT_SUCCESSFUL"
              /\ frame[r].cloud_calls = 0
              /\ frame[r].probe = "RESULT_NOT_SUCCESSFUL" => frame[r].http_gets = 0

\* C15: when the file of (host, 8002) cannot be created, the connection
\* on port 8002 is still attempted, with no handle, and the run is decided
\* by that connection alone: SUCCESS with working_port 8002 when it opens,
\* NOT_SUCCESSFUL when it does not.
C15_CreationFailureDoesNotAbort ==
    \A r \in Resolvers :
        /\ (frame[r].gen = "failed" /\ frame[r].pc \in {"ws_open", "ws_exit"}) =>
              /\ frame[r].idx = 2
              /\ frame[r].token_file = None
        /\ \A i \in 1..Len(Attempts(r)) :
              Attempts(r)[i].gen = "failed" =>
                  /\ i = 2
                  /\ Attempts(r)[i].port = 8002
                  /\ Attempts(r)[i].token_file = None
                  /\ Attempts(r)[i].outcome = "ok" =>
                        (frame[r].probe = "RESULT_SUCCESS" /\ tv[r].port = 8002)
                  /\ Attempts(r)[i].outcome # "ok" =>
                        frame[r].probe = "RESULT_NOT_SUCCESSFUL"
        /\ frame[r].pc \in {"ws_done", "http", "extract", "cloud"} =>
              Len(Attempts(r)) >= 1

\* C15 witness: the file could not be created and port 8002 accepted
C15_Witness ==
    \E r \in Resolvers :
        /\ frame[r].pc = "ws_done"
        /\ Len(Attempts(r)) = 2
        /\ Attempts(r)[2].gen = "failed"
        /\ Attempts(r)[2].token_file = None
        /\ Attempts(r)[2].outcome = "ok"
        /\ frame[r].probe = RESULT_SUCCESS
        /\ tv[r].port = 8002

\* C16: a timeout is handled like an I/O failure of its step and nothing
\* is retried: within a call each port is attempted at most once, the
\* descriptor GET and the cloud health check are issued at most once, a
\* descriptor timeout gives NOT_SUCCESSFUL as a connection failure does and
\* a cloud timeout gives WRONG_APIKEY as a network error does.  (A timeout
\* of remote.open() is an OSError or a WebSocketException.)
C16_TimeoutIsFailureNoRetry ==
    \A r \in Resolvers :
        /\ Len(Attempts(r)) <= 2
        /\ \A i, j \in 1..Len(Attempts(r)) :
              Attempts(r)[i].port = Attempts(r)[j].port => i = j
        /\ \A i \in 1..Len(Attempts(r)) :
              frame[r].pc \in {"ws_gen", "ws_create", "ws_open", "ws_exit"} =>
                  Attempts(r)[i].port # <<8001, 8002>>[frame[r].idx]
        /\ frame[r].http_gets <= 1
        /\ frame[r].cloud_calls <= 1
        /\ frame[r].http \in {"TimeoutError", "ClientConnectionError"} =>
              /\ frame[r].pc = "done"
              /\ frame[r].result = "RESULT_NOT_SUCCESSFUL"
              /\ frame[r].raised = NoException
              /\ frame[r].http_gets = 1
              /\ frame[r].cloud_calls = 0
        /\ frame[r].cloud.kind \in {"TimeoutError", "ClientConnectionError"} =>
              /\ frame[r].pc = "done"
              /\ frame[r].result = "RESULT_WRONG_APIKEY"
              /\ frame[r].raised = NoException
              /\ frame[r].cloud_calls = 1

\* C16 witness: a call ended by a timeout of the descriptor GET after both
\* ports had been attempted once
C16_Witness ==
    \E r \in Resolvers :
        /\ frame[r].pc = "done"
        /\ Len(Attempts(r)) = 2
        /\ frame[r].http = "TimeoutError"
        /\ frame[r].http_gets = 1
        /\ frame[r].result = RESULT_NOT_SUCCESSFUL

\* C18: when a call returns NOT_SUCCESSFUL, the descriptor attributes and
\* the name supplied by the caller are what they were before the call; only
\* working_port may differ, and only when the prober succeeded, in which
\* case it is the port whose connection opened.
C18_NotSuccessfulLeavesDescriptor ==
    \A r \in Resolvers :
        (frame[r].pc = "done" /\ frame[r].result = "RESULT_NOT_SUCCESSFUL") =>
            /\ tv[r].uuid = frame[r].pre.uuid
            /\ tv[r].macaddress = frame[r].pre.macaddress
            /\ tv[r].device_name = frame[r].pre.device_name
            /\ tv[r].device_model = frame[r].pre.device_model
            /\ tv[r].device_os = frame[r].pre.device_os
            /\ tv[r].token_support = frame[r].pre.token_support
            /\ tv[r].name = frame[r].pre.name
            /\ tv[r].hostname = frame[r].pre.hostname
            /\ frame[r].probe # "RESULT_SUCCESS" => tv[r].port = frame[r].pre.port
            /\ tv[r].port # frame[r].pre.port =>
                  /\ frame[r].probe = "RESULT_SUCCESS"
                  /\ Attempts(r)[Len(Attempts(r))].outcome = "ok"
                  /\ Attempts(r)[Len(Attempts(r))].port = tv[r].port

\* C18 witness: a resolver that holds a descriptor from an earlier call
\* returns NOT_SUCCESSFUL for a body without a device field, after a probe
\* that moved working_port from 8001 to 8002
C18_Witness ==
    \E r \in Resolvers :
        /\ frame[r].pc = "done"
        /\ frame[r].result = RESULT_NOT_SUCCESSFUL
        /\ frame[r].http = "ok"
        /\ ~frame[r].info.hasDevice
        /\ frame[r].pre.uuid = Str(<<"A", "B">>)
        /\ tv[r].uuid = Str(<<"A", "B">>)
        /\ frame[r].pre.port = 8001
        /\ tv[r].port = 8002

\* C19: the connections of a prober run are scoped: at most one is open at
\* any time, the one on port 8001 is closed before the attempt on port 8002
\* starts, and none is open once the run has returned.
C19_ConnectionsScoped ==
    \A r \in Resolvers :
        /\ Cardinality(conns[r]) <= 1
        /\ conns[r] # {} =>
              /\ frame[r].pc = "ws_exit"
              /\ conns[r] = {<<8001, 8002>>[frame[r].idx]}
        /\ frame[r].idx = 2 => 8001 \notin conns[r]
        /\ frame[r].probe # NoResult => conns[r] = {}
        /\ frame[r].pc \in {"idle", "ws_done", "http", "extract", "cloud", "done"} =>
              conns[r] = {}

\* C19 witness: the connection on port 8002 is the only one open, after a
\* failed attempt on port 8001
C19_Witness ==
    \E r \in Resolvers :
        /\ frame[r].pc = "ws_exit"
        /\ frame[r].idx = 2
        /\ Len(Attempts(r)) = 1
        /\ Attempts(r)[1].outcome = "ConnectionFailure"
        /\ conns[r] = {8002}

\* what belongs to resolver q: its object, its call, its connections and
\* the credential-cache slot of its host
Slice(q) ==
    <<tv[q], frame[q], conns[q], fs[TokenPath(tv[q].hostname)]>>

\* the outcome of the finished call of a fresh resolver q as its own inputs
\* give it when it runs alone
AloneOutcome(q) ==
    LET f == frame[q]
        n == Len(f.attempts)
        opened == n >= 1 /\ f.attempts[n].outcome = "ok"
        read == opened /\ f.http = "ok" /\ f.info.hasDevice
    IN  /\ tv[q].port = IF opened THEN f.attempts[n].port ELSE 0
        /\ f.result =
              IF ~read THEN "RESULT_NOT_SUCCESSFUL"
              ELSE IF f.api_key = None THEN "RESULT_SUCCESS"
              ELSE IF f.cloud.kind = "health" THEN "RESULT_SUCCESS"
              ELSE "RESULT_WRONG_APIKEY"
        /\ Descriptor(tv[q]) =
              IF read
              THEN <<f.info.device.id, None, None, None, None, PyFalse>>
              ELSE <<None, None, None, None, None, PyFalse>>
        /\ \A i \in 1..n :
              f.attempts[i].token_file \in {None, Str(TokenPath(HostOf(q)))}

\* C12: resolutions of distinct hosts that run at the same time do not
\* interfere: every step is the step of one resolution and leaves alone
\* what belongs to the other (its object, its call, its connections and the
\* slot of its host), and each finished call has the result code,
\* working_port and descriptor its own inputs give it when it runs alone.
C12_DistinctHostsIndependent ==
    /\ [](\A q \in Resolvers : frame[q].pc = "done" => AloneOutcome(q))
    /\ [][\E r \in Resolvers :
            \A q \in Resolvers \ {r} : Slice(q)' = Slice(q)]_vars

\* C12 witness: the two probes hold their connections on port 8002 at the
\* same time, each with the slot of its own host, created in its run, and
\* the token of one host is stored while the slot of the other is empty
C12_Witness ==
    /\ \A q \in Resolvers :
          /\ frame[q].pc = "ws_exit"
          /\ conns[q] = {8002}
          /\ frame[q].gen = "created"
          /\ frame[q].token_file = Str(<<"token-", HostOf(q), ".txt">>)
    /\ tv[1].hostname # tv[2].hostname
    /\ fs[<<"token-", "tvA", ".txt">>] = "token"
    /\ fs[<<"token-", "tvB", ".txt">>] = "empty"

\* C17: a token stored in a credential-cache slot stays there: no step of
\* any probe of the same host, its create-if-absent step included, removes
\* or empties it.
C17_TokenNeverDestroyed ==
    [][\A p \in Paths : fs[p] = "token" => fs'[p] = "token"]_vars


\* hass.data as the unload of the entry has to leave it: the record of the
\* entry id gone, under the unique id what was there before the entry was
\* set up, every other key as it is, and the DOMAIN key there when a key
\* remains under it
Restored(entry) ==
    LET d == [Pop(hass.data.domain, entry.entry_id) EXCEPT
                 ![entry.unique_id] = hass.entries[entry.entry_id].host_before]
    IN  IF DictEmpty(d) THEN NoDomain ELSE WithDomain(d)

\* C20: the unload of a loaded entry completes, calls every listener
\* remover registered with the entry exactly once, and leaves hass.data as
\* it was before the entry was set up: the entry-id record gone, the
\* per-host data of async_setup and the data of other entries untouched, the
\* DOMAIN key removed only when nothing remains under it.
C20_UnloadRestoresHassData ==
    [][\A entry \in ConfigEntries :
          LET s == hass.entries[entry.entry_id]
              t == hass'.entries[entry.entry_id]
          IN  (s.state = "loaded" /\ t.state # "loaded") =>
                  /\ t.state = "not_loaded"
                  /\ t.raised = NoException
                  /\ t.called = s.update_listeners
                  /\ t.update_listeners = 0
                  /\ hass'.data = Restored(entry)]_vars
=============================================================================
